---------------------------- MODULE Spec2Model ----------------------------
(***************************************************************************)
(* Model of the two chart pipelines of the repository:                     *)
(*   create_nfl_scatter_plot  (src/ftn_graphing.py)                         *)
(*   create_qb_plot           (src/graphing.py)                             *)
(* Each call is a run of a state machine whose stages are the numbered     *)
(* sections of the function.  Text is a sequence of one-character strings. *)
(*                                                                         *)
(* Numbers.  A cell of a numeric column is a natural number or NaN         *)
(* (pandas' missing marker).  The value of a cell of column c is           *)
(* cell / 100^scale[c]: `df[col] / 100` divides a whole column, so the     *)
(* exponent is kept per column and every division by 100 is exact.         *)
(* A mean is the pair <<sum, count>>.  Standard deviations are kept in     *)
(* tenths of the column's unit, rounded down; margins and axis limits in   *)
(* hundredths of the column's unit.  xlim and ylim hold the range the      *)
(* function hands to the axes (set_xlim, set_ylim, then the inversions);   *)
(* markers and labels hold the artists added by the plotting loop, each    *)
(* with the position in plot_df of the row it was drawn for.               *)
(***************************************************************************)
EXTENDS Integers, Sequences, FiniteSets, TLC

VARIABLES fn, pc, err, x_col, y_col, df, df_secondary, columns, scale,
          plot_df, mean_x, mean_y, iter, markers, labels,
          pct_x, pct_y, margin_x, margin_y, xlim, ylim, invert_x, invert_y,
          label_text, clean_label

vars == <<fn, pc, err, x_col, y_col, df, df_secondary, columns, scale,
          plot_df, mean_x, mean_y, iter, markers, labels,
          pct_x, pct_y, margin_x, margin_y, xlim, ylim, invert_x, invert_y,
          label_text, clean_label>>

(***************************************************************************)
(* Bounds of the model.                                                    *)
(***************************************************************************)
MaxPrimary == 2
MaxSecondary == 2
MaxQbRows == 2
MaxLabelLen == 4

(***************************************************************************)
(* Missing values and arithmetic helpers.                                  *)
(***************************************************************************)
NaN == -1

RECURSIVE SumSeq(_)
SumSeq(s) == IF s = <<>> THEN 0 ELSE Head(s) + SumSeq(Tail(s))

RECURSIVE SumSq(_)
SumSq(s) == IF s = <<>> THEN 0 ELSE Head(s) * Head(s) + SumSq(Tail(s))

RECURSIVE Pow100(_)
Pow100(e) == IF e = 0 THEN 1 ELSE 100 * Pow100(e - 1)

RECURSIVE SqrtBetween(_, _, _)
SqrtBetween(n, lo, hi) ==
    IF lo = hi THEN lo
    ELSE LET mid == (lo + hi + 1) \div 2
         IN  IF mid * mid <= n THEN SqrtBetween(n, mid, hi)
                               ELSE SqrtBetween(n, lo, mid - 1)

\* floor of the square root of n (0 <= n < 2^30)
ISqrt(n) == SqrtBetween(n, 0, 32767)

\* pandas reductions skip missing cells (skipna=True)
Valid(vals) == SelectSeq(vals, LAMBDA v : v # NaN)

Range(s) == {s[k] : k \in 1..Len(s)}

\* Series.mean(): <<sum, count>> of the non-missing cells; <<0, 0>> is NaN
Mean(vals) == <<SumSeq(Valid(vals)), Len(Valid(vals))>>

\* Series.min() / Series.max(): NaN when no cell is present
Min(vals) ==
    IF Valid(vals) = <<>> THEN NaN
    ELSE CHOOSE m \in Range(Valid(vals)) : \A v \in Range(Valid(vals)) : m <= v

Max(vals) ==
    IF Valid(vals) = <<>> THEN NaN
    ELSE CHOOSE m \in Range(Valid(vals)) : \A v \in Range(Valid(vals)) : m >= v

\* Series.std(): sample standard deviation (ddof = 1), in tenths of the unit,
\* rounded down; NaN with fewer than two cells present.
\*   var = (n * sum(v^2) - sum(v)^2) / (n * (n - 1))
Std(vals) ==
    LET v   == Valid(vals)
        n   == Len(v)
        num == n * SumSq(v) - SumSeq(v) * SumSeq(v)
        den == n * (n - 1)
    IN  IF n < 2 THEN NaN
        ELSE ISqrt((num \div den) * 100 + ((num % den) * 100) \div den)

\* the cells of column c, in row order
Col(rows, c) == [k \in 1..Len(rows) |-> rows[k][c]]

(***************************************************************************)
(* Text helpers.                                                           *)
(***************************************************************************)
HasSpace(s) == \E k \in 1..Len(s) : s[k] = " "

FirstSpace(s) == CHOOSE k \in 1..Len(s) : s[k] = " " /\ \A j \in 1..(k - 1) : s[j] # " "

\* str.split(" "): cut at every single space, keeping empty pieces
RECURSIVE Split(_)
Split(s) ==
    IF ~HasSpace(s) THEN <<s>>
    ELSE <<SubSeq(s, 1, FirstSpace(s) - 1)>>
           \o Split(SubSeq(s, FirstSpace(s) + 1, Len(s)))

\* " ".join(parts)
RECURSIVE JoinParts(_)
JoinParts(parts) ==
    IF parts = <<>> THEN <<>>
    ELSE IF Len(parts) = 1 THEN parts[1]
    ELSE parts[1] \o <<" ">> \o JoinParts(Tail(parts))

\* str.split(): the whitespace-separated tokens (maximal runs of non-space)
Tokens(s) == SelectSeq(Split(s), LAMBDA p : p # <<>>)

\* label_parts = label_text.split(" ")
\* clean_label = " ".join(label_parts[1:]) if len(label_parts) > 1 else label_text
CleanLabel(text) ==
    LET label_parts == Split(text)
    IN  IF Len(label_parts) > 1 THEN JoinParts(Tail(label_parts)) ELSE text


(***************************************************************************)
(* Inputs of create_nfl_scatter_plot.                                      *)
(* The primary CSV has the columns Tm and X, the secondary CSV the columns *)
(* Tm and Z; an empty CSV field is read as NaN.  join_key is "Tm".  Every  *)
(* row carries src, the position of the primary Record it derives from.    *)
(***************************************************************************)
DAL == <<"D", "A", "L">>
DallasCowboys == <<"D", "a", "l", "l", "a", "s", " ", "C", "o", "w", "b", "o", "y", "s">>
NYG == <<"N", "Y", "G">>

\* the team list of the primary file: row k is the k-th team
TeamList == <<DAL, DallasCowboys, NYG>>
TeamOf(k) == TeamList[((k - 1) % Len(TeamList)) + 1]

\* the teams a secondary row may name (the same team may come twice)
SecondaryTeams == {DAL, DallasCowboys}

PrimaryCells == {NaN, 1, 50, 200}
\* an unmatched primary row gets NaN from the join itself
SecondaryCells == {1, 50}

SeqsUpTo(S, n) == UNION {[1..m -> S] : m \in 0..n}

PrimaryTables ==
    {[k \in 1..Len(t) |-> [src |-> k, Tm |-> TeamOf(k), X |-> t[k], Z |-> NaN]] :
        t \in SeqsUpTo(PrimaryCells, MaxPrimary)}

SecondaryTables ==
    {[k \in 1..Len(t) |-> [Tm |-> t[k][1], Z |-> t[k][2]]] :
        t \in SeqsUpTo(SecondaryTeams \X SecondaryCells, MaxSecondary)}

NflAxes == {"X", "Z"}

\* outcome of looking up and decoding one logo file
AssetStates == {"ok", "absent", "corrupt"}

\* the exceptions a call can end with
KeyError == "KeyError"
ConvertError == "ValueError: could not convert string to float"
LimitError == "ValueError: Axis limits cannot be NaN or Inf"
ImageError == "UnidentifiedImageError"

NoMean == <<0, 0>>
NoLimits == <<>>

(***************************************************************************)
(* create_nfl_scatter_plot, section 1: load and join.                      *)
(***************************************************************************)
\* the secondary rows whose join key equals the key of the primary row
Matches(row, right) == SelectSeq(right, LAMBDA r : r.Tm = row.Tm)

\* variant: an inner join (how='inner'), which drops an unmatched primary row
JoinRowInner(row, right) ==
    [k \in 1..Len(Matches(row, right)) |->
        [row EXCEPT !.Z = Matches(row, right)[k].Z]]

\* the rows one primary row contributes to a left join
JoinRow(row, right) ==
    IF Matches(row, right) = <<>> THEN <<row>>
    ELSE [k \in 1..Len(Matches(row, right)) |->
            [row EXCEPT !.Z = Matches(row, right)[k].Z]]

\* pd.merge(df, df_secondary, on=join_key, how='left')
RECURSIVE Merge(_, _)
Merge(left, right) ==
    IF left = <<>> THEN <<>>
    ELSE JoinRow(Head(left), right) \o Merge(Tail(left), right)

InitNfl ==
    /\ fn = "nfl"
    /\ pc = "join"
    /\ err = ""
    /\ x_col \in NflAxes
    /\ y_col \in NflAxes
    /\ df \in PrimaryTables
    /\ df_secondary = <<>>
    /\ columns = {"Tm", "X"}
    /\ scale = [c \in NflAxes |-> 0]
    /\ plot_df = <<>>
    /\ mean_x = NoMean
    /\ mean_y = NoMean
    /\ iter = 0
    /\ markers = <<>>
    /\ labels = <<>>
    /\ pct_x = FALSE
    /\ pct_y = FALSE
    /\ margin_x = NaN
    /\ margin_y = NaN
    /\ xlim = NoLimits
    /\ ylim = NoLimits
    /\ invert_x = FALSE
    /\ invert_y = FALSE
    /\ label_text = <<>>
    /\ clean_label = <<>>

\* lines 16-21; given = (secondary_csv and join_key)
Join ==
    /\ fn = "nfl"
    /\ pc = "join"
    /\ \E given \in BOOLEAN, secondary \in SecondaryTables :
          IF given
          THEN /\ df_secondary' = secondary
               /\ df' = Merge(df, secondary)
               /\ columns' = columns \cup {"Z"}
          ELSE UNCHANGED <<df_secondary, df, columns>>
    /\ pc' = "normalize"
    /\ iter' = 1
    /\ UNCHANGED <<fn, err, x_col, y_col, scale, plot_df, mean_x, mean_y,
                   markers, labels, pct_x, pct_y, margin_x, margin_y, xlim, ylim,
                   invert_x, invert_y, label_text, clean_label>>

(***************************************************************************)
(* Section 2: percentage normalization of the two axis columns.            *)
(***************************************************************************)
\* variant: the threshold test written `>= 1`
MeanGe1(vals, e) ==
    /\ Mean(vals)[2] > 0
    /\ Mean(vals)[1] >= Mean(vals)[2] * Pow100(e)

\* df[col].mean() > 1, for cells scaled by 100^e; a NaN mean is not > 1
MeanGt1(vals, e) ==
    /\ Mean(vals)[2] > 0
    /\ Mean(vals)[1] > Mean(vals)[2] * Pow100(e)

\* one iteration of `for col in [x_col, y_col]`: every cell of the model is
\* a number or missing, so the column's dtype is numeric
NormalizeCol(rows, cols, s, col) ==
    IF col \in cols /\ MeanGt1(Col(rows, col), s[col])
    THEN [s EXCEPT ![col] = @ + 1]
    ELSE s

Normalize ==
    /\ fn = "nfl"
    /\ pc = "normalize"
    /\ scale' = NormalizeCol(df, columns, scale, <<x_col, y_col>>[iter])
    /\ IF iter < 2
       THEN iter' = iter + 1 /\ pc' = pc
       ELSE iter' = 0 /\ pc' = "dropna"
    /\ UNCHANGED <<fn, err, x_col, y_col, df, df_secondary, columns, plot_df,
                   mean_x, mean_y, markers, labels, pct_x, pct_y, margin_x,
                   margin_y, xlim, ylim, invert_x, invert_y, label_text,
                   clean_label>>

(***************************************************************************)
(* Section 5: filtering, means and the plotting loop.                      *)
(***************************************************************************)
\* df.dropna(subset=[x_col, y_col])
DropRows(rows, xc, yc) ==
    SelectSeq(rows, LAMBDA r : r[xc] # NaN /\ r[yc] # NaN)

\* lines 60-63; a subset column the frame lacks raises KeyError
DropNa ==
    /\ fn = "nfl"
    /\ pc = "dropna"
    /\ IF x_col \in columns /\ y_col \in columns
       THEN /\ plot_df' = DropRows(df, x_col, y_col)
            /\ mean_x' = Mean(Col(plot_df', x_col))
            /\ mean_y' = Mean(Col(plot_df', y_col))
            /\ pc' = "plot"
            /\ iter' = 1
            /\ err' = err
       ELSE /\ pc' = "failed"
            /\ err' = KeyError
            /\ UNCHANGED <<plot_df, mean_x, mean_y, iter>>
    /\ UNCHANGED <<fn, x_col, y_col, df, df_secondary, columns, scale, markers,
                   labels, pct_x, pct_y, margin_x, margin_y, xlim, ylim,
                   invert_x, invert_y, label_text, clean_label>>

\* getImage of ftn_graphing.py: None when the file is absent, None when
\* opening, decoding or resizing it raises, the image otherwise
GetImage(asset) ==
    IF asset = "absent" THEN "none"
    ELSE IF asset = "corrupt" THEN "none"
    ELSE "image"

\* lines 76-80: an image marker, or else a fallback point
NflMarker(row, img_obj) ==
    IF img_obj = "image" THEN <<[row |-> row, kind |-> "image"]>>
    ELSE <<[row |-> row, kind |-> "point"]>>

\* one iteration of `for i, row in plot_df.iterrows()`
PlotRow ==
    /\ fn = "nfl"
    /\ pc = "plot"
    /\ iter <= Len(plot_df)
    /\ \E asset \in AssetStates :
          markers' = markers \o NflMarker(iter, GetImage(asset))
    /\ labels' = Append(labels, [row |-> iter,
                                 text |-> CleanLabel(plot_df[iter].Tm)])
    /\ iter' = iter + 1
    /\ UNCHANGED <<fn, pc, err, x_col, y_col, df, df_secondary, columns, scale,
                   plot_df, mean_x, mean_y, pct_x, pct_y, margin_x, margin_y,
                   xlim, ylim, invert_x, invert_y, label_text, clean_label>>

\* the loop is exhausted
PlotEnd ==
    /\ fn = "nfl"
    /\ pc = "plot"
    /\ iter > Len(plot_df)
    /\ pc' = "format"
    /\ iter' = 0
    /\ UNCHANGED <<fn, err, x_col, y_col, df, df_secondary, columns, scale,
                   plot_df, mean_x, mean_y, markers, labels, pct_x, pct_y,
                   margin_x, margin_y, xlim, ylim, invert_x, invert_y,
                   label_text, clean_label>>

(***************************************************************************)
(* Section 6: percentage formatting, limits, inversion.                    *)
(***************************************************************************)
\* variant: the test written `< 1`
MaxLt1(vals, e) == Max(vals) # NaN /\ Max(vals) < Pow100(e)

\* plot_df[col].max() <= 1, for cells scaled by 100^e; NaN <= 1 is false
MaxLe1(vals, e) == Max(vals) # NaN /\ Max(vals) <= Pow100(e)

\* lines 112-115
Format ==
    /\ fn = "nfl"
    /\ pc = "format"
    /\ pct_x' = MaxLe1(Col(plot_df, x_col), scale[x_col])
    /\ pct_y' = MaxLe1(Col(plot_df, y_col), scale[y_col])
    /\ pc' = "limits"
    /\ UNCHANGED <<fn, err, x_col, y_col, df, df_secondary, columns, scale,
                   plot_df, mean_x, mean_y, iter, markers, labels, margin_x,
                   margin_y, xlim, ylim, invert_x, invert_y, label_text,
                   clean_label>>

\* plot_df[col].std() * 0.5, in hundredths of the unit
NflMargin(vals) == IF Std(vals) = NaN THEN NaN ELSE Std(vals) * 5

\* (min - margin, max + margin) in hundredths; NoLimits when either is NaN
Limits(vals, margin) ==
    IF margin = NaN \/ Min(vals) = NaN THEN NoLimits
    ELSE <<100 * Min(vals) - margin, 100 * Max(vals) + margin>>

\* lines 118-122; set_xlim / set_ylim raise ValueError on a NaN limit
SetLimits ==
    /\ fn = "nfl"
    /\ pc = "limits"
    /\ margin_x' = NflMargin(Col(plot_df, x_col))
    /\ margin_y' = NflMargin(Col(plot_df, y_col))
    /\ IF Limits(Col(plot_df, x_col), margin_x') = NoLimits
       THEN pc' = "failed" /\ err' = LimitError /\ UNCHANGED <<xlim, ylim>>
       ELSE /\ xlim' = Limits(Col(plot_df, x_col), margin_x')
            /\ IF Limits(Col(plot_df, y_col), margin_y') = NoLimits
               THEN pc' = "failed" /\ err' = LimitError /\ ylim' = ylim
               ELSE /\ ylim' = Limits(Col(plot_df, y_col), margin_y')
                    /\ pc' = "invert"
                    /\ err' = err
    /\ UNCHANGED <<fn, x_col, y_col, df, df_secondary, columns, scale, plot_df,
                   mean_x, mean_y, iter, markers, labels, pct_x, pct_y,
                   invert_x, invert_y, label_text, clean_label>>

\* ax.invert_xaxis() / ax.invert_yaxis(): the two ends of the range swap
Flip(lim) == <<lim[2], lim[1]>>

\* variant: the invert_x branch flips the y axis as well
InvertXBoth(xl, yl, flag) == IF flag THEN <<Flip(xl), Flip(yl)>> ELSE <<xl, yl>>

InvertX(xl, yl, flag) == IF flag THEN <<Flip(xl), yl>> ELSE <<xl, yl>>

InvertY(xl, yl, flag) == IF flag THEN <<xl, Flip(yl)>> ELSE <<xl, yl>>

\* lines 124-127, with the two flags of the call
Invert ==
    /\ fn = "nfl"
    /\ pc = "invert"
    /\ \E ix \in BOOLEAN, iy \in BOOLEAN :
          /\ invert_x' = ix
          /\ invert_y' = iy
          /\ LET afterX == InvertX(xlim, ylim, ix)
                 afterY == InvertY(afterX[1], afterX[2], iy)
             IN  xlim' = afterY[1] /\ ylim' = afterY[2]
    /\ pc' = "done"
    /\ UNCHANGED <<fn, err, x_col, y_col, df, df_secondary, columns, scale,
                   plot_df, mean_x, mean_y, iter, markers, labels, pct_x, pct_y,
                   margin_x, margin_y, label_text, clean_label>>

NextNfl == Join \/ Normalize \/ DropNa \/ PlotRow \/ PlotEnd \/ Format
             \/ SetLimits \/ Invert

SpecNfl == InitNfl /\ [][NextNfl]_vars

(***************************************************************************)
(* Inputs of create_qb_plot.                                               *)
(* The record list has the columns Player Name, Plays, EPA (EPA/Play) and  *)
(* Success (Success %); every raw cell is text.  Of percent_cols the model *)
(* keeps Success.                                                          *)
(***************************************************************************)
JAllen == <<"J", ".", " ", "A", "l", "l", "e", "n">>
Mahomes == <<"M", "a", "h", "o", "m", "e", "s">>
LJackson == <<"L", ".", " ", "J", "a", "c", "k", "s", "o", "n">>

\* the players of the record list: row k is the k-th player
PlayerList == <<JAllen, Mahomes, LJackson>>
PlayerOf(k) == PlayerList[((k - 1) % Len(PlayerList)) + 1]

RawPlays == {<<"5", "0">>, <<"1", "5", "0">>}
RawEPA == {<<>>, <<"1">>, <<"5", "0">>}
RawSuccess == {<<>>, <<"4", "5", "%">>, <<"a", "b", "c">>}

QbTables ==
    {[k \in 1..Len(t) |-> [src |-> k, name |-> PlayerOf(k), Plays |-> t[k][1],
                           EPA |-> t[k][2], Success |-> t[k][3]]] :
        t \in SeqsUpTo(RawPlays \X RawEPA \X RawSuccess, MaxQbRows)}

QbAxes == {"EPA", "Success"}
QbColumns == {"Plays", "EPA", "Success"}

\* percent_cols (line 21), restricted to the columns of the model
percent_cols == {"Success"}

\* min_plays (line 10)
MinPlays == 100

(***************************************************************************)
(* create_qb_plot, section 1: load and clean.                              *)
(***************************************************************************)
Digits == {"0", "1", "2", "3", "4", "5", "6", "7", "8", "9"}

DigitVal(c) ==
    CASE c = "0" -> 0 [] c = "1" -> 1 [] c = "2" -> 2 [] c = "3" -> 3
      [] c = "4" -> 4 [] c = "5" -> 5 [] c = "6" -> 6 [] c = "7" -> 7
      [] c = "8" -> 8 [] c = "9" -> 9

\* text that float() accepts: here, a non-empty run of digits
IsNumber(s) == s # <<>> /\ \A k \in 1..Len(s) : s[k] \in Digits

RECURSIVE ParseNat(_)
ParseNat(s) ==
    IF s = <<>> THEN 0
    ELSE 10 * ParseNat(SubSeq(s, 1, Len(s) - 1)) + DigitVal(s[Len(s)])

\* str.rstrip('%')
RECURSIVE RStripPercent(_)
RStripPercent(s) ==
    IF s # <<>> /\ s[Len(s)] = "%" THEN RStripPercent(SubSeq(s, 1, Len(s) - 1))
    ELSE s

\* pd.to_numeric(..., errors='coerce'): text that is no number becomes NaN
ToNumeric(s) == IF IsNumber(s) THEN ParseNat(s) ELSE NaN

\* .str.rstrip('%').replace('', np.nan).astype(float): "raise" is the
\* ValueError of astype(float) on text that is no number; the division by
\* 100.0 that follows is kept in scale
PercentToFloat(s) ==
    IF RStripPercent(s) = <<>> THEN NaN
    ELSE IF IsNumber(RStripPercent(s)) THEN ParseNat(RStripPercent(s))
    ELSE "raise"

PercentRaises(s) == RStripPercent(s) # <<>> /\ ~IsNumber(RStripPercent(s))

\* the index of the first ". " in s, 0 when there is none
DotSpace(s) ==
    IF \E k \in 1..(Len(s) - 1) : s[k] = "." /\ s[k + 1] = " "
    THEN CHOOSE k \in 1..(Len(s) - 1) :
            /\ s[k] = "." /\ s[k + 1] = " "
            /\ \A j \in 1..(k - 1) : ~(s[j] = "." /\ s[j + 1] = " ")
    ELSE 0

\* .str.split('. ', n=1).str[-1]: what follows the first ". ", else the name
StripInitial(s) ==
    IF DotSpace(s) = 0 THEN s ELSE SubSeq(s, DotSpace(s) + 2, Len(s))

CleanRow(r) ==
    [src |-> r.src, name |-> StripInitial(r.name), Plays |-> ToNumeric(r.Plays),
     EPA |-> ToNumeric(r.EPA), Success |-> PercentToFloat(r.Success)]

InitQb ==
    /\ fn = "qb"
    /\ pc = "clean"
    /\ err = ""
    /\ x_col \in QbAxes
    /\ y_col \in QbAxes
    /\ df \in QbTables
    /\ df_secondary = <<>>
    /\ columns = QbColumns \cup {"Player Name"}
    /\ scale = [c \in QbColumns |-> 0]
    /\ plot_df = <<>>
    /\ mean_x = NoMean
    /\ mean_y = NoMean
    /\ iter = 0
    /\ markers = <<>>
    /\ labels = <<>>
    /\ pct_x = FALSE
    /\ pct_y = FALSE
    /\ margin_x = NaN
    /\ margin_y = NaN
    /\ xlim = NoLimits
    /\ ylim = NoLimits
    /\ invert_x = FALSE
    /\ invert_y = FALSE
    /\ label_text = <<>>
    /\ clean_label = <<>>

\* lines 19-27
QbClean ==
    /\ fn = "qb"
    /\ pc = "clean"
    /\ IF \E k \in 1..Len(df) : PercentRaises(df[k].Success)
       THEN /\ pc' = "failed"
            /\ err' = ConvertError
            /\ UNCHANGED <<df, scale>>
       ELSE /\ df' = [k \in 1..Len(df) |-> CleanRow(df[k])]
            /\ scale' = [c \in QbColumns |-> IF c \in percent_cols THEN 1 ELSE 0]
            /\ pc' = "filter"
            /\ err' = err
    /\ UNCHANGED <<fn, x_col, y_col, df_secondary, columns, plot_df, mean_x,
                   mean_y, iter, markers, labels, pct_x, pct_y, margin_x,
                   margin_y, xlim, ylim, invert_x, invert_y, label_text,
                   clean_label>>

\* df[df['Plays'] >= min_plays]: a comparison with NaN is false
FilterPlays(rows) ==
    SelectSeq(rows, LAMBDA r : r.Plays # NaN /\ r.Plays >= MinPlays)

\* lines 29 and 52-53
QbFilter ==
    /\ fn = "qb"
    /\ pc = "filter"
    /\ plot_df' = FilterPlays(df)
    /\ mean_x' = Mean(Col(plot_df', x_col))
    /\ mean_y' = Mean(Col(plot_df', y_col))
    /\ pc' = "plot"
    /\ iter' = 1
    /\ UNCHANGED <<fn, err, x_col, y_col, df, df_secondary, columns, scale,
                   markers, labels, pct_x, pct_y, margin_x, margin_y, xlim, ylim,
                   invert_x, invert_y, label_text, clean_label>>

(***************************************************************************)
(* create_qb_plot, section 5: the plotting loop.                           *)
(***************************************************************************)
\* getImage of graphing.py: None when the file is absent; an exception of
\* opening, decoding or resizing the file is not caught
QbGetImage(asset) ==
    IF asset = "absent" THEN "none"
    ELSE IF asset = "corrupt" THEN "raise"
    ELSE "image"

\* lines 61-63: an image marker, and nothing otherwise
QbMarker(row, img_obj) ==
    IF img_obj = "image" THEN <<[row |-> row, kind |-> "image"]>>
    ELSE <<>>

\* row['Player Name'].split()[-1]
LastToken(s) == Tokens(s)[Len(Tokens(s))]

\* one iteration of `for i, row in df_plot.iterrows()`
QbPlotRow ==
    /\ fn = "qb"
    /\ pc = "plot"
    /\ iter <= Len(plot_df)
    /\ \E asset \in AssetStates :
          IF QbGetImage(asset) = "raise"
          THEN /\ pc' = "failed"
               /\ err' = ImageError
               /\ UNCHANGED <<markers, labels, iter>>
          ELSE /\ markers' = markers \o QbMarker(iter, QbGetImage(asset))
               /\ labels' = Append(labels, [row |-> iter,
                                            text |-> LastToken(plot_df[iter].name)])
               /\ iter' = iter + 1
               /\ UNCHANGED <<pc, err>>
    /\ UNCHANGED <<fn, x_col, y_col, df, df_secondary, columns, scale, plot_df,
                   mean_x, mean_y, pct_x, pct_y, margin_x, margin_y, xlim, ylim,
                   invert_x, invert_y, label_text, clean_label>>

QbPlotEnd ==
    /\ fn = "qb"
    /\ pc = "plot"
    /\ iter > Len(plot_df)
    /\ pc' = "format"
    /\ iter' = 0
    /\ UNCHANGED <<fn, err, x_col, y_col, df, df_secondary, columns, scale,
                   plot_df, mean_x, mean_y, markers, labels, pct_x, pct_y,
                   margin_x, margin_y, xlim, ylim, invert_x, invert_y,
                   label_text, clean_label>>

(***************************************************************************)
(* create_qb_plot, section 6: percentage formatting and limits.            *)
(***************************************************************************)
\* `axis in percent_cols`
QbIsPercent(col) == col \in percent_cols

\* lines 96-97
QbFormat ==
    /\ fn = "qb"
    /\ pc = "format"
    /\ pct_y' = QbIsPercent(y_col)
    /\ pct_x' = QbIsPercent(x_col)
    /\ pc' = "limits"
    /\ UNCHANGED <<fn, err, x_col, y_col, df, df_secondary, columns, scale,
                   plot_df, mean_x, mean_y, iter, markers, labels, margin_x,
                   margin_y, xlim, ylim, invert_x, invert_y, label_text,
                   clean_label>>

\* df_plot[col].std() * 0.4, in hundredths of the unit
QbMargin(vals) == IF Std(vals) = NaN THEN NaN ELSE Std(vals) * 4

\* lines 100-103
QbSetLimits ==
    /\ fn = "qb"
    /\ pc = "limits"
    /\ margin_x' = QbMargin(Col(plot_df, x_col))
    /\ margin_y' = QbMargin(Col(plot_df, y_col))
    /\ IF Limits(Col(plot_df, x_col), margin_x') = NoLimits
       THEN pc' = "failed" /\ err' = LimitError /\ UNCHANGED <<xlim, ylim>>
       ELSE /\ xlim' = Limits(Col(plot_df, x_col), margin_x')
            /\ IF Limits(Col(plot_df, y_col), margin_y') = NoLimits
               THEN pc' = "failed" /\ err' = LimitError /\ ylim' = ylim
               ELSE /\ ylim' = Limits(Col(plot_df, y_col), margin_y')
                    /\ pc' = "done"
                    /\ err' = err
    /\ UNCHANGED <<fn, x_col, y_col, df, df_secondary, columns, scale, plot_df,
                   mean_x, mean_y, iter, markers, labels, pct_x, pct_y,
                   invert_x, invert_y, label_text, clean_label>>

NextQb == QbClean \/ QbFilter \/ QbPlotRow \/ QbPlotEnd \/ QbFormat
            \/ QbSetLimits

SpecQb == InitQb /\ [][NextQb]_vars

(***************************************************************************)
(* Both functions.                                                         *)
(***************************************************************************)
Init == InitNfl \/ InitQb

Next == NextNfl \/ NextQb

Spec == Init /\ [][Next]_vars

(***************************************************************************)
(* Label cleaning on its own: the label text is drawn from every text of   *)
(* at most MaxLabelLen characters, and the step applies lines 85-86.       *)
(***************************************************************************)
LabelChars == {"a", "b", " "}

InitLabel ==
    /\ fn = "label"
    /\ pc = "clean"
    /\ err = ""
    /\ x_col = "X"
    /\ y_col = "X"
    /\ df = <<>>
    /\ df_secondary = <<>>
    /\ columns = {"Tm", "X"}
    /\ scale = [c \in NflAxes |-> 0]
    /\ plot_df = <<>>
    /\ mean_x = NoMean
    /\ mean_y = NoMean
    /\ iter = 0
    /\ markers = <<>>
    /\ labels = <<>>
    /\ pct_x = FALSE
    /\ pct_y = FALSE
    /\ margin_x = NaN
    /\ margin_y = NaN
    /\ xlim = NoLimits
    /\ ylim = NoLimits
    /\ invert_x = FALSE
    /\ invert_y = FALSE
    /\ label_text \in SeqsUpTo(LabelChars, MaxLabelLen)
    /\ clean_label = <<>>

CleanLabelStep ==
    /\ fn = "label"
    /\ pc = "clean"
    /\ clean_label' = CleanLabel(label_text)
    /\ pc' = "done"
    /\ UNCHANGED <<fn, err, x_col, y_col, df, df_secondary, columns, scale,
                   plot_df, mean_x, mean_y, iter, markers, labels, pct_x, pct_y,
                   margin_x, margin_y, xlim, ylim, invert_x, invert_y,
                   label_text>>

SpecLabel == InitLabel /\ [][CleanLabelStep]_vars

(***************************************************************************)
(* Properties.                                                             *)
(***************************************************************************)
IsCall == fn \in {"nfl", "qb"}

\* the stages after the plotting loop has ended
AfterLoop == pc \in {"format", "limits", "invert", "done"}

\* the stages after both axis ranges were set
LimitsSet == pc \in {"invert", "done"}

\* the rows of `rows` that a primary Record k contributed
Copies(rows, k) == {j \in 1..Len(rows) : rows[j].src = k}

\* the step of the join, when a secondary source and a join key were given
JoinStep == fn = "nfl" /\ pc = "join" /\ pc' = "normalize" /\ "Z" \in columns'

\* the number of secondary rows that carry the join key of row r
MatchCount(r, right) == Cardinality({j \in 1..Len(right) : right[j].Tm = r.Tm})

\* C1, as stated: after the join every row of the primary source appears
\* exactly once in the joined dataset, however many secondary rows carry its
\* join key; an unmatched row is kept with a null secondary field.
C1_EveryPrimaryRowOnce ==
    [][JoinStep =>
         \A k \in 1..Len(df) :
            /\ Cardinality(Copies(df', df[k].src)) = 1
            /\ MatchCount(df[k], df_secondary') = 0 =>
                  \A j \in Copies(df', df[k].src) : df'[j].Z = NaN]_vars

\* C1, amended: a primary row whose join key is carried by n secondary rows
\* appears n times in the joined dataset when n >= 1 (so exactly once when
\* n = 1) and exactly once, with a null secondary field, when n = 0; every
\* copy keeps the primary fields.
C1_LeftJoinRowCount ==
    [][JoinStep =>
         \A k \in 1..Len(df) :
            LET n == MatchCount(df[k], df_secondary')
                copies == Copies(df', df[k].src)
            IN  /\ Cardinality(copies) = IF n = 0 THEN 1 ELSE n
                /\ \A j \in copies : df'[j].Tm = df[k].Tm /\ df'[j].X = df[k].X
                /\ n = 0 => \A j \in copies : df'[j].Z = NaN
                /\ n = 1 => Cardinality(copies) = 1]_vars

\* C1 witness: a joined dataset in which one primary row was matched twice
\* (two copies) and another was not matched at all (kept, secondary NaN).
C1_Witness ==
    /\ fn = "nfl" /\ pc = "normalize" /\ "Z" \in columns
    /\ \E i \in 1..Len(df), j \in 1..Len(df) : i # j /\ df[i].src = df[j].src
    /\ \E i \in 1..Len(df) :
          MatchCount(df[i], df_secondary) = 0 /\ df[i].Z = NaN

\* the mean of the present cells of column c is at most 1
MeanAtMost1(rows, c, e) ==
    SumSeq(Valid(Col(rows, c))) <= Len(Valid(Col(rows, c))) * Pow100(e)

\* C2: applying the normalization step to an axis column that is already
\* normalized (mean <= 1) changes no value of that column.
C2_NormalizationIdempotent ==
    [][(fn = "nfl" /\ pc = "normalize") =>
         LET col == <<x_col, y_col>>[iter]
         IN  (col \in columns /\ MeanAtMost1(df, col, scale[col])) =>
                (scale'[col] = scale[col] /\ df' = df)]_vars

\* C2 witness: both axes are the same column; the first pass divided it by
\* 100, the second pass met a mean <= 1 and left it as it was.
C2_Witness ==
    /\ fn = "nfl" /\ pc = "dropna" /\ x_col = y_col /\ x_col \in columns
    /\ scale[x_col] = 1
    /\ MeanAtMost1(df, x_col, 1)
    /\ Valid(Col(df, x_col)) # <<>>

\* C3: a label with two or more whitespace-separated tokens is cleaned to
\* tokens[1:] joined by single spaces; a label with exactly one token is
\* unchanged (also with repeated, leading or trailing spaces).
C3_CleanedLabel ==
    (fn = "label" /\ pc = "done") =>
        /\ Len(Tokens(label_text)) >= 2 =>
              clean_label = JoinParts(Tail(Tokens(label_text)))
        /\ Len(Tokens(label_text)) = 1 => clean_label = label_text

\* both axis cells of the row are present
Present(r) == r[x_col] # NaN /\ r[y_col] # NaN

\* the rows that are up for plotting: all rows, for create_qb_plot those
\* with at least min_plays plays
Candidates ==
    IF fn = "qb"
    THEN SelectSeq(df, LAMBDA r : r.Plays # NaN /\ r.Plays >= MinPlays)
    ELSE df

PresentRows == SelectSeq(Candidates, Present)

\* C4: a row whose x or y value is missing is left out of the statistics and
\* gets no marker and no label; every other row is drawn.
C4_MissingRowsExcluded ==
    (IsCall /\ (pc = "plot" \/ AfterLoop)) =>
        /\ \A j \in 1..Len(labels) : Present(plot_df[labels[j].row])
        /\ \A j \in 1..Len(markers) : Present(plot_df[markers[j].row])
        /\ mean_x = Mean(Col(PresentRows, x_col))
        /\ mean_y = Mean(Col(PresentRows, y_col))
        /\ AfterLoop => Len(labels) = Len(PresentRows)

MarkersOf(k) == {j \in 1..Len(markers) : markers[j].row = k}

\* C5: exactly one marker is drawn per plotted row, an image or a fallback
\* point, and no exception of an asset escapes the call.
C5_OneMarkerPerRow ==
    IsCall =>
        /\ pc = "plot" => \A k \in 1..(iter - 1) : Cardinality(MarkersOf(k)) = 1
        /\ AfterLoop => \A k \in 1..Len(plot_df) : Cardinality(MarkersOf(k)) = 1
        /\ \A j \in 1..Len(markers) : markers[j].kind \in {"image", "point"}
        /\ err # ImageError

\* C6: with zero or one filtered row the margin falls back to 0, the limits
\* are finite and the call does not fail on them.
C6_DegenerateMarginZero ==
    (IsCall /\ Len(plot_df) <= 1) =>
        /\ err # LimitError
        /\ LimitsSet =>
              /\ margin_x = 0 /\ margin_y = 0
              /\ xlim # NoLimits /\ ylim # NoLimits

Lo(lim) == IF lim[1] <= lim[2] THEN lim[1] ELSE lim[2]
Hi(lim) == IF lim[1] <= lim[2] THEN lim[2] ELSE lim[1]

Brackets(lim, c, margin) ==
    /\ margin # NaN /\ margin >= 0
    /\ Lo(lim) = 100 * Min(Col(plot_df, c)) - margin
    /\ Hi(lim) = 100 * Max(Col(plot_df, c)) + margin
    /\ \A k \in 1..Len(plot_df) :
          Lo(lim) <= 100 * plot_df[k][c] /\ 100 * plot_df[k][c] <= Hi(lim)

\* C7: with at least two filtered rows, the limits of each axis are
\* [min - margin, max + margin] with margin >= 0 and hold every plotted value.
C7_LimitsBracketValues ==
    (IsCall /\ Len(plot_df) >= 2) =>
        /\ err # LimitError
        /\ LimitsSet =>
              Brackets(xlim, x_col, margin_x) /\ Brackets(ylim, y_col, margin_y)

FinalRange(c, margin) ==
    <<100 * Min(Col(plot_df, c)) - margin, 100 * Max(Col(plot_df, c)) + margin>>

\* C8: the range of each axis is [min - margin, max + margin], and an
\* inversion only swaps the two ends of its own axis: the y limits do not
\* depend on invert_x, nor the x limits on invert_y.
C8_InversionIndependence ==
    (fn = "nfl" /\ pc = "done") =>
        /\ xlim = IF invert_x THEN Flip(FinalRange(x_col, margin_x))
                              ELSE FinalRange(x_col, margin_x)
        /\ ylim = IF invert_y THEN Flip(FinalRange(y_col, margin_y))
                              ELSE FinalRange(y_col, margin_y)

\* C8 witness: x inverted, y not, on two different columns with a proper
\* range each.
C8_Witness ==
    /\ fn = "nfl" /\ pc = "done" /\ x_col # y_col
    /\ invert_x /\ ~invert_y
    /\ xlim[1] > xlim[2] /\ ylim[1] < ylim[2]

\* the largest plotted value of column c is at most 1
MaxPlottedLe1(c) ==
    /\ \E k \in 1..Len(plot_df) : plot_df[k][c] # NaN
    /\ \A k \in 1..Len(plot_df) :
          plot_df[k][c] # NaN => plot_df[k][c] <= Pow100(scale[c])

\* the stages after the tick formatters were chosen
Formatted ==
    pc \in {"limits", "invert", "done"} \/ (pc = "failed" /\ err = LimitError)

\* C9, as stated: in both functions an axis has percentage ticks whenever its
\* largest plotted value is <= 1 or its column is a declared percentage
\* column.
C9_PercentWheneverMaxLe1OrDeclared ==
    (IsCall /\ Formatted) =>
        /\ (MaxPlottedLe1(x_col) \/ (fn = "qb" /\ x_col = "Success")) => pct_x
        /\ (MaxPlottedLe1(y_col) \/ (fn = "qb" /\ y_col = "Success")) => pct_y

\* C9, amended: in create_nfl_scatter_plot an axis has percentage ticks
\* exactly when its largest plotted value is <= 1; in create_qb_plot exactly
\* when its column is a declared percentage column, whatever its values.  The
\* decision for one axis does not read the other axis.
C9_PercentPerFunction ==
    (IsCall /\ Formatted) =>
        /\ fn = "nfl" => /\ pct_x = MaxPlottedLe1(x_col)
                         /\ pct_y = MaxPlottedLe1(y_col)
        /\ fn = "qb" => /\ pct_x = (x_col = "Success")
                        /\ pct_y = (y_col = "Success")

\* C9 witness: create_qb_plot with EPA on x, all its plotted values <= 1 and
\* no percentage ticks, next to Success on y with percentage ticks.
C9_Witness ==
    /\ fn = "qb" /\ pc = "limits"
    /\ x_col = "EPA" /\ MaxPlottedLe1("EPA") /\ ~pct_x
    /\ y_col = "Success" /\ pct_y

\* C10: within one call no axis column is divided by 100 more than once.
C10_DividedAtMostOnce ==
    fn = "nfl" => \A c \in NflAxes : scale[c] <= 1

=============================================================================
